---- MODULE Spec2Model ----
(***************************************************************************)
(* Model of the native-audio ring buffer (AudioWorklet processor), of the  *)
(* recording store (zustand state machine) and of the native audio bridge  *)
(* (start / stop / pause / resume and the chunk listener).                 *)
(*                                                                         *)
(* Sizes are scaled down: the processor's frame of 128 samples is          *)
(* modelled by frameSize samples and its 4800-sample buffer by a buffer of *)
(* 2*frameSize or 2*frameSize+1 samples (the real buffer holds 37.5        *)
(* frames, so a capacity that is not a multiple of the frame is the        *)
(* faithful case; the multiple is kept for drain-to-empty scenarios).      *)
(* Samples are numbered 1, 2, 3, ... in the order they are posted, so that *)
(* loss, duplication and reordering are visible; 0 is silence.             *)
(***************************************************************************)
EXTENDS Integers, Sequences, FiniteSets, TLC

VARIABLES
    \* --- NativeAudioProcessor fields ---
    bufferSize,         \* this.bufferSize
    buffer,             \* this.buffer (Float32Array of bufferSize samples)
    writeIndex,         \* this.writeIndex
    readIndex,          \* this.readIndex
    availableSamples,   \* this.availableSamples
    channel,            \* outputs[0][0] as left by the last process() call
    \* --- observation of the last operation ---
    op,                 \* name of the last operation executed
    err,                \* "none" or the exception the last operation raised
    lenIn,              \* length of the chunk of the last audio-data message
    underrun,           \* the last process() call took the underrun branch
    \* --- history of the sample stream ---
    nextSample,         \* number of samples posted so far
    epochStart,         \* nextSample when the buffer was last left empty
    out,                \* frames read since epochStart, concatenated
    clean,              \* since epochStart every write completed and none followed a read
    noOverflow,         \* every write so far found room: availableSamples + len <= bufferSize
    samplesRead,        \* samples returned by non-underrun reads while noOverflow (0 afterwards)
    \* --- recording store ---
    store,              \* [state, client, serverUrl] as returned by get()
    mic,                \* the session client's mic enable flag
    ret,                \* return value of the last store operation
    prev,               \* the store before the last store operation
    prevMic,            \* the mic flag before the last store operation
    lastSent,           \* messages the last store operation sent to the client
    failedCall,         \* client call that threw in the last store operation
    lastMicCalls,       \* arguments of the enableMic calls the last store operation completed
    thrown,             \* exception that escaped the last store operation to its caller
    lastMsg,            \* the last message any store operation sent to the client ("none" at first)
    \* --- native audio bridge (createNativeAudioBridge closure) ---
    audioContextState,  \* audioContext.state
    unlisten,           \* the bridge's unlisten handle (NoHandle = undefined)
    listeners,          \* "native-audio-data" listeners registered with the event system
    capture,            \* state of the native capture subsystem
    calls,              \* the start() invocations: where each is suspended, what it registered
    port,               \* workletNode.port messages posted and not yet delivered
    \* --- observation of the last bridge step ---
    who,                \* the start() invocation it belongs to (0 if none)
    bridgeError,        \* exception it raised to its caller
    stopFailed,         \* it was a stop() whose stop_native_mic the capture subsystem rejected
    released,           \* the handle it released (NoHandle if none)
    \* --- history of the bridge ---
    phase,              \* "fresh": stop() never called; "stopped" / "stopFailed": no start()
                        \* was called since the last stop(); "restarted": one was
    eventsLog,          \* the chunk events emitted so far
    staleMark,          \* number of samples emitted before the last stop() (0 if none)
    writesLog           \* the chunks the processor has written so far

ringVars  == <<bufferSize, buffer, writeIndex, readIndex, availableSamples,
               channel, err, lenIn, underrun, nextSample, epochStart, out, clean,
               noOverflow, samplesRead>>
storeVars == <<store, mic, ret, prev, prevMic, lastSent, failedCall, lastMicCalls, thrown,
               lastMsg>>
bridgeVars == <<audioContextState, unlisten, listeners, capture, calls, port,
                who, bridgeError, stopFailed, released, phase, eventsLog, writesLog,
                staleMark>>
vars      == <<ringVars, storeVars, bridgeVars, op>>

----------------------------------------------------------------------------
\* Bounds and scaled constants

\* total number of samples the producer posts in one behaviour
MaxWritten == 12

\* const frameSize = 128 (scaled)
frameSize == 2

\* this.bufferSize = 4800 (scaled: two frames, or two frames and a half-frame rest)
Capacities == {2 * frameSize, 2 * frameSize + 1}

MessageTypes == {"audio-data", "other"}

Min(a, b) == IF a < b THEN a ELSE b

----------------------------------------------------------------------------
\* Typed arrays

\* new Float32Array(n): n zeros
Zeros(n) == [i \in 1..n |-> 0]

\* a.subarray(begin, end): elements begin .. end-1 (0-based), clamped to the array
SubArray(a, begin, end) ==
    LET b == Min(begin, Len(a))
        e == Min(end, Len(a))
    IN  IF e <= b THEN <<>> ELSE [i \in 1..(e - b) |-> a[b + i]]

\* target.set(src, offset) throws RangeError unless src fits at offset
SetFits(target, src, offset) == offset + Len(src) <= Len(target)

\* target.set(src, offset) when it fits
TypedArraySet(target, src, offset) ==
    [i \in 1..Len(target) |->
        IF i > offset /\ i <= offset + Len(src) THEN src[i - offset] ELSE target[i]]

\* event.data.samples: the next len samples of the stream
Samples(first, len) == [i \in 1..len |-> first + i]

----------------------------------------------------------------------------
\* NativeAudioProcessor

\* write: firstPart = Math.min(len, this.bufferSize - this.writeIndex)
WriteFirstPart(len, size, wi) == Min(len, size - wi)

\* write: this.availableSamples = Math.min(this.availableSamples + len, this.bufferSize)
AvailableAfterWrite(avail, len, size) == Min(avail + len, size)

\* a write that waits for the reader to make room
WriteWaits_UntilRoom(avail, len, size) == avail + len > size

\* write: no condition is tested before the copy; a write that finds no room
\* saturates availableSamples instead of waiting (Math.min(..., this.bufferSize))
WriteWaits(avail, len, size) == FALSE

\* a write position that runs past the end of the buffer
WriteIndexAfter_NoWrap(wi, len, size) == wi + len

\* write: this.writeIndex = (this.writeIndex + len) % this.bufferSize
WriteIndexAfter(wi, len, size) == (wi + len) % size

\* a read that only asks for a non-empty buffer
HasFrame_AnyAvailable(avail) == avail > 0

\* process: if (this.availableSamples >= frameSize)
HasFrame(avail) == avail >= frameSize

\* a read that forgets the end of the buffer
ReadFirstPart_NoWrap(size, ri) == frameSize

\* process: firstPart = Math.min(frameSize, this.bufferSize - this.readIndex)
ReadFirstPart(size, ri) == Min(frameSize, size - ri)

\* a read position that never moves
ReadIndexAfter_Stuck(ri, size) == ri

\* process: this.readIndex = (this.readIndex + frameSize) % this.bufferSize
ReadIndexAfter(ri, size) == (ri + frameSize) % size

\* a read that forgets to consume what it returned
AvailableAfterRead_Kept(avail) == avail

\* process: this.availableSamples -= frameSize
AvailableAfterRead(avail) == avail - frameSize

\* history bookkeeping: an operation that starts on an empty buffer starts a new epoch
EpochBase == IF availableSamples = 0
             THEN [start |-> nextSample, out |-> <<>>, clean |-> TRUE]
             ELSE [start |-> epochStart, out |-> out, clean |-> clean]

RingInit ==
    /\ bufferSize \in Capacities
    /\ buffer = Zeros(bufferSize)
    /\ writeIndex = 0
    /\ readIndex = 0
    /\ availableSamples = 0
    /\ channel = Zeros(frameSize)
    /\ err = "none"
    /\ lenIn = 0
    /\ underrun = FALSE
    /\ nextSample = 0
    /\ epochStart = 0
    /\ out = <<>>
    /\ clean = TRUE
    /\ noOverflow = TRUE
    /\ samplesRead = 0

\* the "audio-data" branch of onmessage applied to one chunk of samples
WriteChunk(samples) ==
    LET len       == Len(samples)
        firstPart == WriteFirstPart(len, bufferSize, writeIndex)
        head      == SubArray(samples, 0, firstPart)
        rest      == SubArray(samples, firstPart, len)
        fits1     == SetFits(buffer, head, writeIndex)
        buf1      == IF fits1 THEN TypedArraySet(buffer, head, writeIndex) ELSE buffer
        wraps     == firstPart < len
        fits2     == SetFits(buf1, rest, 0)
        buf2      == IF wraps /\ fits2 THEN TypedArraySet(buf1, rest, 0) ELSE buf1
        failed    == ~fits1 \/ (wraps /\ ~fits2)
        base      == EpochBase
    IN  /\ ~WriteWaits(availableSamples, len, bufferSize)
        /\ op' = "write"
        /\ lenIn' = len
        /\ buffer' = buf2
        /\ err' = IF failed THEN "RangeError" ELSE "none"
        /\ writeIndex' = IF failed THEN writeIndex
                         ELSE WriteIndexAfter(writeIndex, len, bufferSize)
        /\ availableSamples' = IF failed THEN availableSamples
                               ELSE AvailableAfterWrite(availableSamples, len, bufferSize)
        /\ epochStart' = base.start
        /\ clean' = (base.clean /\ ~failed /\ (len = 0 \/ base.out = <<>>))
        /\ out' = IF clean' THEN base.out ELSE <<>>
        /\ noOverflow' = (noOverflow /\ availableSamples + len <= bufferSize)
        /\ samplesRead' = IF noOverflow' THEN samplesRead ELSE 0
        /\ UNCHANGED <<bufferSize, readIndex, channel, underrun>>

\* this.port.onmessage = (event) => { ... }
OnMessage(type, len) ==
    /\ nextSample + len <= MaxWritten
    /\ IF type # "audio-data"
       THEN /\ op' = "ignored"
            /\ err' = "none"
            /\ UNCHANGED <<bufferSize, buffer, writeIndex, readIndex, availableSamples,
                           channel, lenIn, underrun, nextSample, epochStart, out, clean,
                           noOverflow, samplesRead>>
       ELSE /\ WriteChunk(Samples(nextSample, len))
            /\ nextSample' = nextSample + len
    /\ UNCHANGED <<storeVars, bridgeVars>>

\* process(_inputs, outputs, _parameters); the engine hands in a zeroed channel
Process ==
    LET channel0 == Zeros(frameSize)
        base     == EpochBase
    IN  /\ op' = "process"
        /\ IF HasFrame(availableSamples)
           THEN LET firstPart == ReadFirstPart(bufferSize, readIndex)
                    head      == SubArray(buffer, readIndex, readIndex + firstPart)
                    fits1     == SetFits(channel0, head, 0)
                    ch1       == IF fits1 THEN TypedArraySet(channel0, head, 0) ELSE channel0
                    wraps     == firstPart < frameSize
                    rest      == SubArray(buffer, 0, frameSize - firstPart)
                    fits2     == SetFits(ch1, rest, firstPart)
                    ch2       == IF wraps /\ fits2 THEN TypedArraySet(ch1, rest, firstPart) ELSE ch1
                    raised    == ~fits1 \/ (wraps /\ ~fits2)
                IN  /\ underrun' = FALSE
                    /\ channel' = ch2
                    /\ err' = IF raised THEN "RangeError" ELSE "none"
                    /\ readIndex' = IF raised THEN readIndex
                                    ELSE ReadIndexAfter(readIndex, bufferSize)
                    /\ availableSamples' = IF raised THEN availableSamples
                                           ELSE AvailableAfterRead(availableSamples)
                    /\ out' = IF base.clean /\ ~raised THEN base.out \o ch2 ELSE base.out
                    /\ samplesRead' = IF noOverflow /\ ~raised THEN samplesRead + frameSize
                                      ELSE samplesRead
           ELSE /\ underrun' = TRUE
                /\ channel' = Zeros(frameSize)       \* channel.fill(0)
                /\ err' = "none"
                /\ out' = base.out
                /\ UNCHANGED <<readIndex, availableSamples, samplesRead>>
        /\ epochStart' = base.start
        /\ clean' = base.clean
        /\ UNCHANGED <<bufferSize, buffer, writeIndex, lenIn, nextSample, noOverflow>>
        /\ UNCHANGED <<storeVars, bridgeVars>>

----------------------------------------------------------------------------
\* useRecordingStore

ConnectionState == {"disconnected", "connecting", "idle", "recording", "processing"}
NoClient == "null"
Clients == {"client"}
ServerUrls == {"null", "ws://server"}

\* state: "disconnected", client: null, serverUrl: null
InitialStore == [state |-> "disconnected", client |-> NoClient, serverUrl |-> "null"]

StoreInit ==
    /\ store = InitialStore
    /\ mic = FALSE
    /\ ret = "undefined"
    /\ prev = InitialStore
    /\ prevMic = FALSE
    /\ lastSent = <<>>
    /\ failedCall = "none"
    /\ lastMicCalls = <<>>
    /\ thrown = "none"
    /\ lastMsg = "none"

----------------------------------------------------------------------------
\* createNativeAudioBridge: state

\* start() invocations in one behaviour
MaxCalls == 2

\* chunk events emitted in one behaviour
MaxChunks == 2

\* chunk lengths: less than a frame, more than a frame
ChunkLens == {1, frameSize + 1}

\* let unlisten: UnlistenFn | undefined
NoHandle == 0

\* the start() invocations, in call order; invocation i registers listener i
CallIds == 1..MaxCalls

\* where a start() invocation is: not called yet, suspended at one of its awaits, or settled
InFlight == {"awaitResume", "awaitListen", "awaitInvoke"}

IdleCall == [pc |-> "idle", lid |-> NoHandle, ok |-> TRUE, why |-> "none", afterStop |-> FALSE]

BridgeInit ==
    /\ audioContextState \in {"suspended", "running"}
    /\ unlisten = NoHandle
    /\ listeners = {}
    /\ capture = "stopped"
    /\ calls = [i \in CallIds |-> IdleCall]
    /\ port = <<>>
    /\ who = 0
    /\ bridgeError = "none"
    /\ stopFailed = FALSE
    /\ released = NoHandle
    /\ phase = "fresh"
    /\ eventsLog = <<>>
    /\ writesLog = <<>>
    /\ staleMark = 0

Init == RingInit /\ StoreInit /\ BridgeInit /\ op = "init"

\* zustand set(partial): shallow merge of the partial into the store
ZSet(st, patch) == [k \in DOMAIN st |-> IF k \in DOMAIN patch THEN patch[k] ELSE st[k]]

\* a setClient that also drops the connection state
SetClientNext_ResetsState(st, c) == ZSet(st, [client |-> c, state |-> "disconnected"])

\* setClient: (client) => set({ client })
SetClientNext(st, c) == ZSet(st, [client |-> c])

\* setServerUrl: (serverUrl) => set({ serverUrl })
SetServerUrlNext(st, u) == ZSet(st, [serverUrl |-> u])

\* setState: (state) => set({ state })
SetStateNext(st, s) == ZSet(st, [state |-> s])

\* startConnecting
StartConnectingNext(st) ==
    IF st.state = "disconnected" THEN ZSet(st, [state |-> "connecting"]) ELSE st

\* handleConnected
HandleConnectedNext(st) ==
    IF st.state = "connecting" \/ st.state = "disconnected"
    THEN ZSet(st, [state |-> "idle"]) ELSE st

\* handleDisconnected
HandleDisconnectedNext(st) == ZSet(st, [state |-> "disconnected"])

\* handleResponse
HandleResponseNext(st) ==
    IF st.state = "processing" THEN ZSet(st, [state |-> "idle"]) ELSE st

\* reset: () => set({ state: "disconnected", client: null })
ResetNext(st) == ZSet(st, [state |-> "disconnected", client |-> NoClient])

\* a startRecording guard that forgets the client
StartRecordingRejected_StateOnly(st) == st.state # "idle"

\* startRecording: if (state !== "idle" || !client) return false
StartRecordingRejected(st) == st.state # "idle" \/ st.client = NoClient

\* stopRecording: if (state !== "recording" || !client) return false
StopRecordingRejected(st) == st.state # "recording" \/ st.client = NoClient

\* a try block without its catch: the client's error reaches the caller
Escapes_Rethrow(failed) == failed

\* startRecording / stopRecording: catch (error) { console.error(...); return false; }
Escapes(failed) == "none"

\* a commit that is skipped
StartRecordingCommit_Skipped(st) == st

\* startRecording: set({ state: "recording" })
StartRecordingCommit(st) == ZSet(st, [state |-> "recording"])

\* stopRecording: set({ state: "processing" })
StopRecordingCommit(st) == ZSet(st, [state |-> "processing"])

\* a startRecording that enables the mic before it sends the message
MicAfterFailedSend_MicFirst(m) == TRUE

\* startRecording: sendClientMessage comes first, so when it throws
\* enableMic(true) is never reached
MicAfterFailedSend(m) == m

\* the effect of one store operation on the store, the client and the observation
StoreStep(name, newStore, newMic, r, sent, micCalls, failed) ==
    /\ op' = name
    /\ store' = newStore
    /\ mic' = newMic
    /\ thrown' = Escapes(failed)
    /\ ret' = IF thrown' = "none" THEN r ELSE "none"
    /\ prev' = store
    /\ prevMic' = mic
    /\ lastSent' = sent
    /\ lastMicCalls' = micCalls
    /\ failedCall' = failed
    /\ lastMsg' = IF sent = <<>> THEN lastMsg ELSE sent[Len(sent)]
    /\ UNCHANGED <<ringVars, bridgeVars>>

setClient(c) == StoreStep("setClient", SetClientNext(store, c), mic, "undefined", <<>>, <<>>, "none")

setServerUrl(u) ==
    StoreStep("setServerUrl", SetServerUrlNext(store, u), mic, "undefined", <<>>, <<>>, "none")

setState(s) == StoreStep("setState", SetStateNext(store, s), mic, "undefined", <<>>, <<>>, "none")

startConnecting ==
    StoreStep("startConnecting", StartConnectingNext(store), mic, "undefined", <<>>, <<>>, "none")

handleConnected ==
    StoreStep("handleConnected", HandleConnectedNext(store), mic, "undefined", <<>>, <<>>, "none")

handleDisconnected ==
    StoreStep("handleDisconnected", HandleDisconnectedNext(store), mic, "undefined", <<>>, <<>>, "none")

handleResponse ==
    StoreStep("handleResponse", HandleResponseNext(store), mic, "undefined", <<>>, <<>>, "none")

reset == StoreStep("reset", ResetNext(store), mic, "undefined", <<>>, <<>>, "none")

\* startRecording; sendOk / micOk: whether client.sendClientMessage / client.enableMic
\* return normally or throw
startRecording(sendOk, micOk) ==
    IF StartRecordingRejected(store)
    THEN StoreStep("startRecording", store, mic, "false", <<>>, <<>>, "none")
    ELSE IF ~sendOk
    THEN StoreStep("startRecording", store, MicAfterFailedSend(mic), "false", <<>>, <<>>,
                   "sendClientMessage")
    ELSE IF ~micOk
    THEN StoreStep("startRecording", store, mic, "false", <<"start-recording">>, <<>>,
                   "enableMic")
    ELSE StoreStep("startRecording", StartRecordingCommit(store), TRUE, "true",
                   <<"start-recording">>, <<TRUE>>, "none")

\* stopRecording; micOk / sendOk as above
stopRecording(micOk, sendOk) ==
    IF StopRecordingRejected(store)
    THEN StoreStep("stopRecording", store, mic, "false", <<>>, <<>>, "none")
    ELSE IF ~micOk
    THEN StoreStep("stopRecording", store, mic, "false", <<>>, <<>>, "enableMic")
    ELSE IF ~sendOk
    THEN StoreStep("stopRecording", store, FALSE, "false", <<>>, <<FALSE>>,
                   "sendClientMessage")
    ELSE StoreStep("stopRecording", StopRecordingCommit(store), FALSE, "true",
                   <<"stop-recording">>, <<FALSE>>, "none")

----------------------------------------------------------------------------
\* createNativeAudioBridge: start, stop, pause, resume and the chunk listener

\* start: if (audioContext.state === "suspended")
NeedsResume(ctx) == ctx = "suspended"

\* start: if (!unlisten)
NeedsListen(h) == h = NoHandle

\* stop: unlisten?.()
StopReleases(ls, h) == ls \ {h}

\* a stop that lets the rejection of stop_native_mic out
StopRaises_Propagates(stopOk) == ~stopOk

\* stop: invoke("stop_native_mic") is not awaited, so its rejection is not raised by stop()
StopRaises(stopOk) == FALSE

\* a pause / resume that tears the subscription down
ListenersAfterPause_Unlistens(ls, h) == ls \ {h}

\* pause / resume: nothing but the invoke
ListenersAfterPause(ls, h) == ls

\* listen callback: one postMessage({type: "audio-data", samples: event.payload})
\* per registered listener
Posted(ls, msg) == [k \in 1..Cardinality(ls) |-> msg]

\* the capture subsystem: the state a command leaves it in (a rejected command changes nothing)
CaptureAfter(cmd, ok, cap) ==
    IF ~ok THEN cap
    ELSE CASE cmd = "start_native_mic"  -> "running"
           [] cmd = "stop_native_mic"   -> "stopped"
           [] cmd = "pause_native_mic"  -> IF cap = "running" THEN "paused" ELSE cap
           [] cmd = "resume_native_mic" -> IF cap = "paused" THEN "running" ELSE cap

\* a bridge step that is not a stop() and raises nothing
Quiet(i) ==
    /\ who' = i
    /\ bridgeError' = "none"
    /\ stopFailed' = FALSE
    /\ released' = NoHandle
    /\ staleMark' = staleMark

\* start, from "await invoke("start_native_mic", { deviceId })": the command is sent
\* now and settles later
InvokeStart(i, c) ==
    \E ok \in BOOLEAN :
        /\ capture' = CaptureAfter("start_native_mic", ok, capture)
        /\ calls' = [calls EXCEPT ![i] = [c EXCEPT !.pc = "awaitInvoke", !.ok = ok]]
        /\ UNCHANGED listeners

\* start, from "if (!unlisten)": runs without suspension up to the next await
ListenOrInvoke(i, c) ==
    IF NeedsListen(unlisten)
    THEN /\ listeners' = listeners \cup {i}
         /\ calls' = [calls EXCEPT ![i] = [c EXCEPT !.pc = "awaitListen", !.lid = i]]
         /\ UNCHANGED <<unlisten, capture>>
    ELSE /\ InvokeStart(i, c)
         /\ UNCHANGED unlisten

\* start(deviceId) is called: runs up to its first await
StartCall(i) ==
    /\ calls[i].pc = "idle"
    /\ \A j \in CallIds : j < i => calls[j].pc # "idle"
    /\ op' = "start"
    /\ Quiet(i)
    /\ phase' = IF phase = "fresh" THEN "fresh" ELSE "restarted"
    /\ IF NeedsResume(audioContextState)
       THEN /\ calls' = [calls EXCEPT ![i] = [IdleCall EXCEPT !.pc = "awaitResume",
                                                          !.afterStop = (phase # "fresh")]]
            /\ UNCHANGED <<unlisten, listeners, capture>>
       ELSE ListenOrInvoke(i, [IdleCall EXCEPT !.afterStop = (phase # "fresh")])
    /\ UNCHANGED <<audioContextState, port, eventsLog, writesLog, ringVars, storeVars>>

\* start: await audioContext.resume() settles
ResumeSettles(i, ok) ==
    /\ calls[i].pc = "awaitResume"
    /\ Quiet(i)
    /\ IF ok
       THEN /\ op' = "start:resumed"
            /\ audioContextState' = "running"
            /\ ListenOrInvoke(i, calls[i])
       ELSE /\ op' = "start:failed"
            /\ calls' = [calls EXCEPT ![i] = [@ EXCEPT !.pc = "failed", !.ok = FALSE,
                                                       !.why = "resume"]]
            /\ UNCHANGED <<audioContextState, unlisten, listeners, capture>>
    /\ UNCHANGED <<port, phase, eventsLog, writesLog, ringVars, storeVars>>

\* start: unlisten = await listen(...) settles
ListenSettles(i) ==
    /\ calls[i].pc = "awaitListen"
    /\ op' = "start:listening"
    /\ Quiet(i)
    /\ unlisten' = calls[i].lid
    /\ InvokeStart(i, calls[i])
    /\ UNCHANGED <<audioContextState, port, phase, eventsLog, writesLog, ringVars, storeVars>>

\* start: await invoke("start_native_mic", ...) settles; start() resolves or rejects
InvokeSettles(i) ==
    /\ calls[i].pc = "awaitInvoke"
    /\ Quiet(i)
    /\ op' = IF calls[i].ok THEN "start:done" ELSE "start:failed"
    /\ calls' = [calls EXCEPT ![i] = [@ EXCEPT !.pc = IF calls[i].ok THEN "done" ELSE "failed",
                                               !.why = IF calls[i].ok THEN "none" ELSE "capture"]]
    /\ UNCHANGED <<audioContextState, unlisten, listeners, capture, port, phase,
                   eventsLog, writesLog, ringVars, storeVars>>

\* stop()
Stop(stopOk) ==
    /\ op' = "stop"
    /\ who' = 0
    /\ capture' = CaptureAfter("stop_native_mic", stopOk, capture)
    /\ stopFailed' = ~stopOk
    /\ phase' = IF stopOk THEN "stopped" ELSE "stopFailed"
    /\ staleMark' = nextSample
    /\ IF StopRaises(stopOk)
       THEN /\ bridgeError' = "rejected"
            /\ released' = NoHandle
            /\ UNCHANGED <<unlisten, listeners>>
       ELSE /\ bridgeError' = "none"
            /\ released' = unlisten
            /\ listeners' = StopReleases(listeners, unlisten)
            /\ unlisten' = NoHandle
    /\ UNCHANGED <<audioContextState, calls, port, eventsLog, writesLog, ringVars, storeVars>>

\* pause()
Pause(ok) ==
    /\ op' = "pause"
    /\ Quiet(0)
    /\ capture' = CaptureAfter("pause_native_mic", ok, capture)
    /\ listeners' = ListenersAfterPause(listeners, unlisten)
    /\ UNCHANGED <<audioContextState, unlisten, calls, port, phase, eventsLog, writesLog,
                   ringVars, storeVars>>

\* resume()
Resume(ok) ==
    /\ op' = "resume"
    /\ Quiet(0)
    /\ capture' = CaptureAfter("resume_native_mic", ok, capture)
    /\ listeners' = ListenersAfterPause(listeners, unlisten)
    /\ UNCHANGED <<audioContextState, unlisten, calls, port, phase, eventsLog, writesLog,
                   ringVars, storeVars>>

\* the capture subsystem emits "native-audio-data" with a chunk of len samples
ChunkEvent(len) ==
    /\ capture = "running"
    /\ Len(eventsLog) < MaxChunks
    /\ op' = "chunk"
    /\ Quiet(0)
    /\ eventsLog' = Append(eventsLog, [first |-> nextSample, len |-> len,
                                       started |-> unlisten # NoHandle])
    /\ port' = port \o Posted(listeners, [first |-> nextSample, len |-> len])
    /\ nextSample' = nextSample + len
    /\ UNCHANGED <<bufferSize, buffer, writeIndex, readIndex, availableSamples, channel,
                   err, lenIn, underrun, epochStart, out, clean, noOverflow, samplesRead>>
    /\ UNCHANGED <<audioContextState, unlisten, listeners, capture, calls, phase, writesLog,
                   storeVars>>

\* the processor receives the oldest posted message
PortDeliver ==
    /\ port # <<>>
    /\ WriteChunk(Samples(Head(port).first, Head(port).len))
    /\ Quiet(0)
    /\ port' = Tail(port)
    /\ writesLog' = Append(writesLog, [first |-> Head(port).first, len |-> Head(port).len,
                                       failed |-> err' # "none"])
    /\ UNCHANGED <<nextSample, storeVars>>
    /\ UNCHANGED <<audioContextState, unlisten, listeners, capture, calls, phase, eventsLog>>

RingNext ==
    \/ \E type \in MessageTypes, len \in 0..MaxWritten : OnMessage(type, len)
    \/ Process

StoreNext ==
    \/ \E c \in Clients \cup {NoClient} : setClient(c)
    \/ \E u \in ServerUrls : setServerUrl(u)
    \/ \E s \in ConnectionState : setState(s)
    \/ startConnecting
    \/ handleConnected
    \/ handleDisconnected
    \/ \E sendOk \in BOOLEAN, micOk \in BOOLEAN : startRecording(sendOk, micOk)
    \/ \E micOk \in BOOLEAN, sendOk \in BOOLEAN : stopRecording(micOk, sendOk)
    \/ handleResponse
    \/ reset

SpecRing == Init /\ [][RingNext]_vars

\* the ring buffer with the render callback scheduled fairly: the audio engine
\* calls process() once per render quantum for as long as it returns true
SpecRingFair == Init /\ [][RingNext]_vars /\ WF_vars(Process)

SpecStore == Init /\ [][StoreNext]_vars

\* the store driven by its transition operations alone (no direct setState)
StoreTransitionNext ==
    \/ \E c \in Clients \cup {NoClient} : setClient(c)
    \/ \E u \in ServerUrls : setServerUrl(u)
    \/ startConnecting
    \/ handleConnected
    \/ handleDisconnected
    \/ \E sendOk \in BOOLEAN, micOk \in BOOLEAN : startRecording(sendOk, micOk)
    \/ \E micOk \in BOOLEAN, sendOk \in BOOLEAN : stopRecording(micOk, sendOk)
    \/ handleResponse
    \/ reset

SpecStoreTransitions == Init /\ [][StoreTransitionNext]_vars

BridgeControl ==
    \/ \E i \in CallIds : StartCall(i)
    \/ \E i \in CallIds, ok \in BOOLEAN : ResumeSettles(i, ok)
    \/ \E i \in CallIds : ListenSettles(i)
    \/ \E i \in CallIds : InvokeSettles(i)
    \/ \E stopOk \in BOOLEAN : Stop(stopOk)
    \/ \E ok \in BOOLEAN : Pause(ok)
    \/ \E ok \in BOOLEAN : Resume(ok)

\* the bridge's lifecycle operations in every interleaving
SpecBridge == Init /\ [][BridgeControl]_vars

\* the bridge with the capture subsystem's chunk events; a posted message is
\* delivered to the processor before the next main-thread step
BridgeAudioNext ==
    \/ \E i \in CallIds : port = <<>> /\ StartCall(i)
    \/ \E i \in CallIds, ok \in BOOLEAN : port = <<>> /\ ResumeSettles(i, ok)
    \/ \E i \in CallIds : port = <<>> /\ ListenSettles(i)
    \/ \E i \in CallIds : port = <<>> /\ InvokeSettles(i)
    \/ \E stopOk \in BOOLEAN : port = <<>> /\ Stop(stopOk)
    \/ \E ok \in BOOLEAN : port = <<>> /\ Pause(ok)
    \/ \E ok \in BOOLEAN : port = <<>> /\ Resume(ok)
    \/ \E len \in ChunkLens : port = <<>> /\ ChunkEvent(len)
    \/ PortDeliver

SpecBridgeAudio == Init /\ [][BridgeAudioNext]_vars

\* sessions: start and stop of the bridge, chunk events and render callbacks
SessionNext ==
    \/ \E i \in CallIds : port = <<>> /\ StartCall(i)
    \/ \E i \in CallIds, ok \in BOOLEAN : port = <<>> /\ ResumeSettles(i, ok)
    \/ \E i \in CallIds : port = <<>> /\ ListenSettles(i)
    \/ \E i \in CallIds : port = <<>> /\ InvokeSettles(i)
    \/ \E stopOk \in BOOLEAN : port = <<>> /\ Stop(stopOk)
    \/ \E len \in ChunkLens : port = <<>> /\ ChunkEvent(len)
    \/ PortDeliver
    \/ port = <<>> /\ Process

SpecSession == Init /\ [][SessionNext]_vars

----------------
\* Ring buffer properties (checked under SpecRing)

\* C1: overwrite-oldest.  Starting from the empty buffer, once more than
\* bufferSize samples have been written (in completed writes, before any read)
\* availableSamples equals bufferSize, and when bufferSize samples have been
\* read back by consecutive frames they are the last bufferSize samples
\* written, in write order.
C1_OverwriteOldest ==
    (epochStart = 0 /\ clean /\ nextSample > bufferSize) =>
        /\ (out = <<>> => availableSamples = bufferSize)
        /\ (Len(out) = bufferSize => out = Samples(nextSample - bufferSize, bufferSize))

\* C2: capacity invariant.  availableSamples stays within 0..bufferSize and
\* every write of len samples sets it to min(previous + len, bufferSize).
C2_CapacityInvariant ==
    [][ /\ availableSamples' \in 0..bufferSize'
        /\ (op' = "write" =>
               availableSamples' = Min(availableSamples + lenIn', bufferSize)) ]_vars

\* C3: no data loss under capacity.  When the buffer is empty again after the
\* writes made since it was last empty (at most bufferSize samples, all written
\* before the drain), the frames read in between are exactly those samples, in
\* write order.
C3_NoDataLossUnderCapacity ==
    (availableSamples = 0 /\ clean /\ nextSample - epochStart <= bufferSize) =>
        out = Samples(epochStart, nextSample - epochStart)

\* C4: underrun silence.  A process() call made with fewer than frameSize
\* samples available outputs frameSize zeros and changes neither readIndex,
\* writeIndex, availableSamples nor the stored samples.
C4_UnderrunSilence ==
    [][ (op' = "process" /\ availableSamples < frameSize) =>
            /\ channel' = [i \in 1..frameSize |-> 0]
            /\ err' = "none"
            /\ readIndex' = readIndex
            /\ writeIndex' = writeIndex
            /\ availableSamples' = availableSamples
            /\ buffer' = buffer ]_vars

\* an underrun read happened while one written sample was buffered
C4_Witness ==
    /\ op = "process"
    /\ underrun
    /\ availableSamples > 0
    /\ availableSamples < frameSize
    /\ channel = [i \in 1..frameSize |-> 0]
    /\ \E i \in 1..bufferSize : buffer[i] # 0

\* C5: a write never raises, whatever the chunk length.
C5_WriteNeverRaises == op = "write" => err = "none"

\* C6: every process() call outputs exactly frameSize samples without raising:
\* the frameSize samples stored from readIndex on (wrapping at the end of the
\* buffer) when that many are available, silence otherwise.
C6_RenderPullExact ==
    [][ op' = "process" =>
            /\ err' = "none"
            /\ Len(channel') = frameSize
            /\ channel' = IF availableSamples >= frameSize
                          THEN [i \in 1..frameSize |->
                                   buffer[((readIndex + i - 1) % bufferSize) + 1]]
                          ELSE [i \in 1..frameSize |-> 0] ]_vars

\* a frame was read across the end of a buffer that is not a whole number of frames
C6_Witness ==
    /\ op = "process"
    /\ ~underrun
    /\ bufferSize % frameSize # 0
    /\ readIndex > 0
    /\ readIndex < frameSize
    /\ Len(channel) = frameSize
    /\ \A i \in 1..frameSize : channel[i] # 0

----------------------------------------------------------------------------
\* Recording store properties (checked under SpecStore)

TransitionOps == {"startConnecting", "handleConnected", "startRecording",
                  "stopRecording", "handleResponse", "handleDisconnected", "reset"}

BooleanOps == {"startRecording", "stopRecording"}

\* the transition table: from-state and guard of each operation
TableMatches(o, s, c) ==
    CASE o = "startConnecting"    -> s = "disconnected"
      [] o = "handleConnected"    -> s \in {"connecting", "disconnected"}
      [] o = "startRecording"     -> s = "idle" /\ c # NoClient
      [] o = "stopRecording"      -> s = "recording" /\ c # NoClient
      [] o = "handleResponse"     -> s = "processing"
      [] o = "handleDisconnected" -> TRUE
      [] o = "reset"              -> TRUE

\* the transition table: target state of each operation
TableTarget(o) ==
    CASE o = "startConnecting"    -> "connecting"
      [] o = "handleConnected"    -> "idle"
      [] o = "startRecording"     -> "recording"
      [] o = "stopRecording"      -> "processing"
      [] o = "handleResponse"     -> "idle"
      [] o = "handleDisconnected" -> "disconnected"
      [] o = "reset"              -> "disconnected"

C8_RecordingNeedsClient ==
    [][ /\ (store'.state \in {"recording", "processing"} => store'.client # NoClient)
        /\ ((store'.state = "recording" /\ store.state # "recording")
               => store.state = "idle")
        /\ ((store'.state = "processing" /\ store.state # "processing")
               => store.state = "recording") ]_vars

C10_NoPartialApplication ==
    (op \in BooleanOps /\ ret = "false" /\ failedCall # "none") =>
        (lastSent = <<>> /\ mic = prevMic)

\* C11: when a session-client call throws during startRecording or
\* stopRecording, the store is exactly what it was before the call, the
\* operation returns false and no exception reaches the caller.
C11_ClientFailureAborts ==
    (op \in BooleanOps /\ failedCall # "none") =>
        /\ store = prev
        /\ ret = "false"
        /\ thrown = "none"

\* stopRecording was aborted in recording because sendClientMessage threw
C11_Witness ==
    /\ op = "stopRecording"
    /\ failedCall = "sendClientMessage"
    /\ prev.state = "recording"
    /\ store.state = "recording"
    /\ ret = "false"

\* C12: the session client's mic is enabled only while state is recording:
\* every transition operation that leaves recording (stopRecording,
\* handleDisconnected, reset) leaves the mic disabled.
C12_MicOffOnEveryExit ==
    [][ (store.state = "recording" /\ store'.state # "recording" /\ op' \in TransitionOps)
            => ~mic' ]_vars

\* C13: a successful startRecording returns true, moves from idle to recording
\* and makes exactly one enableMic(true) call and sends exactly one
\* "start-recording" message; a successful stopRecording returns true, moves
\* from recording to processing and makes exactly one enableMic(false) call and
\* sends exactly one "stop-recording" message.
C13_SuccessfulTransitionEffects ==
    /\ (op = "startRecording" /\ prev.state = "idle" /\ prev.client # NoClient
            /\ failedCall = "none") =>
           /\ ret = "true"
           /\ store.state = "recording"
           /\ lastMicCalls = <<TRUE>>
           /\ lastSent = <<"start-recording">>
    /\ (op = "stopRecording" /\ prev.state = "recording" /\ prev.client # NoClient
            /\ failedCall = "none") =>
           /\ ret = "true"
           /\ store.state = "processing"
           /\ lastMicCalls = <<FALSE>>
           /\ lastSent = <<"stop-recording">>

\* stopRecording succeeded on the recording a successful startRecording began
C13_Witness ==
    /\ op = "stopRecording"
    /\ prev.state = "recording"
    /\ prev.client # NoClient
    /\ prevMic
    /\ failedCall = "none"
    /\ ret = "true"
    /\ store.state = "processing"

----------------------------------------------------------------------------
\* Bridge properties (checked under SpecBridge and SpecBridgeAudio)

NoneInFlight == \A i \in CallIds : calls[i].pc \notin InFlight

\* every start() called so far has completed without an error
AllStartsDone ==
    /\ \A i \in CallIds : calls[i].pc \in {"idle", "done"}
    /\ \E i \in CallIds : calls[i].pc = "done"

\* C14: stop() is safe at any time.  Once a stop() whose stop_native_mic
\* succeeded and every start() called before it have finished (none of them
\* with an error), no listener is registered and capture is not running.
C14_StopSafeAtAnyTime ==
    (phase = "stopped" /\ AllStartsDone) =>
        (listeners = {} /\ capture # "running")

\* C15: start() is idempotent for the subscription.  When stop() was never
\* called and every start() called so far has completed, exactly one listener
\* is registered and the bridge's handle is the one that releases it.
C15_StartIdempotent ==
    (phase = "fresh" /\ AllStartsDone) =>
        /\ Cardinality(listeners) = 1
        /\ unlisten \in listeners

\* C16: cleanup on startup failure.  A start() that failed (resume rejected or
\* start_native_mic rejected) leaves no listener of its own registered.
C16_CleanupOnStartupFailure ==
    \A i \in CallIds : calls[i].pc = "failed" => calls[i].lid \notin listeners

\* C17: stop() is best-effort.  Whether or not the capture subsystem rejects
\* stop_native_mic, stop() releases the listener its handle stands for, clears
\* the handle and raises nothing.
C17_StopBestEffort ==
    [][ op' = "stop" =>
            /\ unlisten' = NoHandle
            /\ unlisten \notin listeners'
            /\ bridgeError' = "none" ]_vars

\* a stop() whose stop_native_mic was rejected released the registered listener
C17_Witness ==
    /\ op = "stop"
    /\ stopFailed
    /\ capture = "running"
    /\ released # NoHandle
    /\ released \notin listeners
    /\ unlisten = NoHandle
    /\ bridgeError = "none"

\* number of completed writes that carried the samples of chunk event e
WritesOf(e) ==
    Cardinality({k \in 1..Len(writesLog) :
                    /\ writesLog[k].first = e.first
                    /\ writesLog[k].len = e.len
                    /\ ~writesLog[k].failed})

\* C18: once every posted message has been delivered, each chunk event emitted
\* while the bridge held its subscription has caused exactly one write, of
\* exactly that chunk's samples.
C18_OneWritePerChunk ==
    port = <<>> =>
        \A k \in 1..Len(eventsLog) : eventsLog[k].started => WritesOf(eventsLog[k]) = 1

\* C19: stop() clears the handle and leaves the ring buffer's indices and
\* contents alone; a start() called after a stop(), once it has completed with
\* no stop() since it was called and no other start() in flight, leaves exactly
\* one registered listener, held by the handle, and a chunk emitted then
\* reaches the processor.
C19_StopThenStart ==
    [][ /\ (op' = "stop" =>
               /\ unlisten' = NoHandle
               /\ UNCHANGED <<buffer, writeIndex, readIndex, availableSamples>>)
        /\ ((op' = "start:done" /\ calls'[who'].afterStop /\ phase' = "restarted"
                /\ NoneInFlight') =>
               /\ Cardinality(listeners') = 1
               /\ unlisten' \in listeners')
        /\ ((op' = "chunk" /\ phase = "restarted" /\ unlisten # NoHandle) =>
               port' # <<>>) ]_vars

\* C20: pause() and resume() leave the subscription, its handle, the render
\* pipeline and the ring buffer unchanged.
C20_PauseResumeOnlyInvoke ==
    [][ op' \in {"pause", "resume"} =>
            /\ listeners' = listeners
            /\ unlisten' = unlisten
            /\ audioContextState' = audioContextState
            /\ port' = port
            /\ UNCHANGED <<buffer, writeIndex, readIndex, availableSamples>> ]_vars

\* pause() paused a running capture and the subscription is still in place
C20_Witness ==
    /\ op = "pause"
    /\ capture = "paused"
    /\ unlisten # NoHandle
    /\ unlisten \in listeners
    /\ audioContextState = "running"

----------------------------------------------------------------------------
\* Further ring buffer properties (checked under SpecRing)

\* C21: non-blocking producer/consumer.  In every reachable state a write of
\* any chunk and a read can both be taken at once: neither has a guard the
\* other operation would have to establish.
C21_NonBlocking ==
    /\ ENABLED Process
    /\ \A len \in 0..(MaxWritten - nextSample) : ENABLED OnMessage("audio-data", len)

\* a chunk longer than the buffer was written at once, without a read in between
C21_Witness ==
    /\ op = "write"
    /\ err = "none"
    /\ lenIn > bufferSize
    /\ availableSamples = bufferSize
    /\ readIndex = 0

\* C23: 0 <= writeIndex < bufferSize and 0 <= readIndex < bufferSize in every
\* reachable state.
C23_IndicesInRange ==
    /\ writeIndex \in 0..(bufferSize - 1)
    /\ readIndex \in 0..(bufferSize - 1)

\* a write wrapped around the end of the buffer after reads had moved readIndex
C23_Witness ==
    /\ op = "write"
    /\ err = "none"
    /\ lenIn > 0
    /\ lenIn < bufferSize
    /\ writeIndex < lenIn
    /\ readIndex > 0

\* C24: (readIndex + availableSamples) mod bufferSize = writeIndex in every
\* reachable state.
C24_IndexCountConsistency ==
    (readIndex + availableSamples) % bufferSize = writeIndex

\* C25: FIFO without overflow.  As long as every write found room, each
\* non-underrun read returns the next frameSize samples of the written stream,
\* all of them already written: what has been read is a prefix of what has
\* been written.
C25_FifoWithoutOverflow ==
    [][ (op' = "process" /\ ~underrun' /\ noOverflow') =>
            /\ channel' = Samples(samplesRead, frameSize)
            /\ samplesRead' = samplesRead + frameSize
            /\ samplesRead' <= nextSample ]_vars

\* without any overflow, more samples than the buffer holds have been read back
C25_Witness ==
    /\ op = "process"
    /\ ~underrun
    /\ noOverflow
    /\ samplesRead > bufferSize + frameSize
    /\ bufferSize % frameSize # 0

----------------------------------------------------------------------------
\* Further recording store properties (checked under SpecStore and SpecStoreTransitions)

\* C22: transitions are serialized.  Of two startRecording calls made one
\* after the other against an idle store with a client, at most one returns
\* true and at most one "start-recording" message is sent.
C22_SerializedTransitions ==
    [][ (/\ op = "startRecording"
         /\ prev.state = "idle"
         /\ prev.client # NoClient
         /\ op' = "startRecording") =>
            /\ ~(ret = "true" /\ ret' = "true")
            /\ Len(lastSent) + Len(lastSent') <= 1 ]_vars

\* C26: the mic is enabled only after a "start-recording" message and is no
\* longer enabled once the "stop-recording" message that follows has been sent;
\* a startRecording whose message could not be sent has not enabled the mic and
\* a stopRecording whose mic call failed has not sent its message.
C26_MicInsideRecordingWindow ==
    /\ mic => lastMsg = "start-recording"
    /\ (op = "startRecording" /\ failedCall = "sendClientMessage") =>
           (lastMicCalls = <<>> /\ mic = prevMic)
    /\ (op = "stopRecording" /\ failedCall = "enableMic") => lastSent = <<>>

\* stopRecording disabled the mic and then failed to send "stop-recording"
C26_Witness ==
    /\ op = "stopRecording"
    /\ failedCall = "sendClientMessage"
    /\ prevMic
    /\ ~mic
    /\ lastMicCalls = <<FALSE>>
    /\ lastMsg = "start-recording"

\* C27: the messages sent to the client alternate "start-recording",
\* "stop-recording", beginning with "start-recording".
C27_MessagesAlternate ==
    [][ (op' \in BooleanOps /\ lastSent' # <<>>) =>
            lastSent'[1] = IF lastMsg = "start-recording"
                           THEN "stop-recording" ELSE "start-recording" ]_vars

----------------------------------------------------------------------------
\* Drain (checked under SpecRingFair)

\* C28: drain to silence.  If from some point on no write occurs, the buffer
\* eventually holds fewer than frameSize samples for good; a read made with
\* fewer than frameSize samples returns silence and changes nothing in the
\* buffer, and every other read takes exactly frameSize samples off
\* availableSamples.
C28_DrainToSilence ==
    /\ (<>[][op' # "write"]_vars) => <>[](availableSamples < frameSize)
    /\ [][ op' = "process" =>
              IF availableSamples >= frameSize
              THEN availableSamples' = availableSamples - frameSize
              ELSE /\ channel' = Zeros(frameSize)
                   /\ UNCHANGED <<buffer, readIndex, writeIndex, availableSamples>> ]_vars

\* reads have drained everything that was written and the last one returned silence
C28_Witness ==
    /\ op = "process"
    /\ underrun
    /\ availableSamples = 0
    /\ nextSample > bufferSize
    /\ readIndex = writeIndex
    /\ readIndex # 0
    /\ channel = Zeros(frameSize)

----------------------------------------------------------------------------
\* Sessions (checked under SpecSession)

\* C29: no stale audio across sessions.  Once start() has been called again
\* after a stop(), no read returns a sample that was emitted, and so written,
\* before that stop().
C29_NoStaleAudio ==
    [][ (op' = "process" /\ ~underrun' /\ phase = "restarted") =>
            \A k \in 1..frameSize : channel'[k] > staleMark ]_vars

====
